---------------------------- MODULE Spec2Model ----------------------------
(***************************************************************************)
(* Model of VideoMerger.py: main's loop over the source folders and        *)
(* merge_video's pipeline for one folder (existence check, metadata        *)
(* validation, list file, ffmpeg, duration verification).                  *)
(*                                                                         *)
(* The external world is drawn at each call: the directory listing         *)
(* (get_videos), whether the output path exists before the run, what       *)
(* ffprobe and ffmpeg do.  One action runs from the return of one external *)
(* call to the next external call, exception handlers, the finally block   *)
(* and main's bookkeeping included.                                        *)
(*                                                                         *)
(* Durations are counted in half seconds (30 s = 60), so that the values   *)
(* of the duration check stay integers.  Writes of error logs and unlink   *)
(* calls are modelled as succeeding (their OSError handlers only log).     *)
(***************************************************************************)
EXTENDS Integers, Sequences, FiniteSets, TLC

\* ------------------------------------------------------------------ bounds

\* Largest number of video parts get_videos returns for one folder.
MaxVideos == 2

\* Largest number of entries of a scanned directory.
MaxEntries == 2

\* ------------------------------------------------------- program constants

\* main, line 701: the sorted list get_dirs returns, each folder by its name.
folder_paths == <<"A", "B">>

\* VIDEO_EXTENSIONS, as the suffixes of the listed files.
VIDEO_EXTENSIONS == {"mp4", "mkv"}

\* duration_tolerance_abs = 5.0 seconds, in half seconds.
duration_tolerance_abs == 10

\* duration_tolerance_rel = 0.02, as a percentage.
duration_tolerance_rel_pct == 2

\* ------------------------------------------------------------ input domains

\* (width, height) pairs ffprobe reports.
Resolutions == {<<1920, 1080>>, <<1280, 720>>, <<1920, 720>>}

\* Durations ffprobe reports for a part: 0 s, 30 s, 300 s.
Durations == {0, 60, 600}

\* merged duration minus the sum of the parts, for the probe of the output.
Drifts == {-11, 0, 10, 11, 24, 25}

\* stderr of a failed ffmpeg run.
Stderrs == {"", "ffmpeg: error"}

\* The metadata dictionary of _get_video_metadata_ffprobe; kind "None" is
\* the None it returns on failure.
NoMetadata == [kind |-> "None", duration |-> 0, width |-> 0, height |-> 0]

MetadataOf(d, w, h) == [kind |-> "dict", duration |-> d, width |-> w, height |-> h]

\* What running ffprobe and reading its output can come to.
ProbeFailureKinds == {"CalledProcessError", "JSONDecodeError", "NoVideoStream", "MissingFields"}

ProbeExceptionKinds == {"FileNotFoundError", "OtherException"}

RawFailure(k) == [kind |-> k, duration |-> 0, width |-> 0, height |-> 0]

RawOk(d, w, h) == [kind |-> "ok", duration |-> d, width |-> w, height |-> h]

RawPartProbes ==
    {RawFailure(k) : k \in ProbeFailureKinds \cup ProbeExceptionKinds}
    \cup {RawOk(d, r[1], r[2]) : d \in Durations, r \in Resolutions}

RawOutputProbes(total, ref) ==
    {RawFailure(k) : k \in ProbeFailureKinds \cup ProbeExceptionKinds}
    \cup {RawOk(total + x, ref.width, ref.height) : x \in Drifts}

\* The sorted lists get_videos can return: each file is given by its suffix,
\* and is identified by its position in the list. merge_video reads the
\* suffix of the first file only, so the lists vary the first suffix against
\* that of the other files, which share one.
Listings ==
    {l \in UNION {[1..n -> VIDEO_EXTENSIONS] : n \in 0..MaxVideos} :
        \A i \in 3..Len(l) : l[i] = l[2]}

Folders == {folder_paths[i] : i \in 1..Len(folder_paths)}

\* What video_output_path.exists() (line 377) comes to.
ExistsOutcomes == {"ok", "OSError"}

Outcomes == {"Pending", "AlreadyExists", "Success", "SkippedNoVideos",
             "FailedMetadata", "FailedNoUsableParts", "FailedResolutionMismatch",
             "FailedMergeExecution", "FailedToolMissing", "FailedUnexpected"}

VARIABLES
    pc,                     \* position of the program
    path_idx,               \* main: position of the for loop in folder_paths
    path,                   \* main: the loop variable, a folder's name
    processed_count,        \* main
    success_count,          \* main
    fail_count,             \* main
    outcome,                \* per folder: the return path taken (a label)
    merge_result,           \* what the last merge_video call gave main
    videos_arr,             \* main: get_videos(path) for the current folder
    video_output_path,      \* merge_video: <<folder name, suffix, directory>>
    idx,                    \* merge_video: position of the validation loop
    total_duration,         \* merge_video
    first_video_metadata,   \* merge_video
    valid_videos_for_merge, \* merge_video: positions in videos_arr
    list_file_path,         \* merge_video: 0 for None, else the temp file's id (the loop position)
    duration_check,         \* merge_video: what the duration check logged
    tempFiles,              \* filesystem: temporary list files
    outputFiles,            \* filesystem: the files at the output paths
    errorLogs,              \* filesystem: specific error logs in log_dir
    probeLog,               \* ffprobe runs for the current folder
    mergerCalls,            \* ffmpeg runs for the current folder
    entries,                \* filesystem: the entries of a scanned directory
    listed                  \* what get_dirs or get_videos returned for it

mainVars == <<path_idx, path, processed_count, success_count, fail_count, outcome, merge_result>>

localVars == <<videos_arr, video_output_path, idx, total_duration,
               first_video_metadata, valid_videos_for_merge, list_file_path,
               duration_check>>

fsVars == <<tempFiles, outputFiles, errorLogs>>

callVars == <<probeLog, mergerCalls>>

scanVars == <<entries, listed>>

vars == <<pc, mainVars, localVars, fsVars, callVars, scanVars>>

NoPath == <<"", "", "">>

Init ==
    /\ pc = "main"
    /\ path_idx = 1
    /\ path = ""
    /\ processed_count = 0
    /\ success_count = 0
    /\ fail_count = 0
    /\ outcome = [f \in Folders |-> "Pending"]
    /\ merge_result = "none"
    /\ videos_arr = <<>>
    /\ video_output_path = NoPath
    /\ idx = 0
    /\ total_duration = 0
    /\ first_video_metadata = NoMetadata
    /\ valid_videos_for_merge = <<>>
    /\ list_file_path = 0
    /\ duration_check = "none"
    /\ tempFiles = {}
    /\ outputFiles = {}
    /\ errorLogs = {}
    /\ probeLog = <<>>
    /\ mergerCalls = <<>>
    /\ entries = {}
    /\ listed = <<>>


\* ------------------------------------------------------------ pure helpers

Max(a, b) == IF a >= b THEN a ELSE b

Abs(x) == IF x >= 0 THEN x ELSE -x

\* Mutant: main calls merge_video for an empty listing too.
main_no_videos_Never(videos) == FALSE

\* main, line 722: `if not videos_arr`.
main_no_videos(videos) == videos = <<>>

\* merge_video, line 366: `if not videos`.
merge_no_videos(videos) == videos = <<>>

\* Mutant: the output is put next to the parts, in the source folder.
OutputPath_InSourceFolder(folder, videos) == <<folder, videos[1], folder>>

\* Mutant: the suffix is taken from the last part.
OutputPath_LastSuffix(folder, videos) == <<folder, videos[Len(videos)], "output_dir">>

\* merge_video, lines 372-374: output_dir / f"{folder_name}{videos[0].suffix}",
\* as the folder's name, the suffix and the directory.
OutputPath(folder, videos) == <<folder, videos[1], "output_dir">>

\* Mutant: the existence check never finds the file.
PathExists_Never(out, files) == FALSE

\* merge_video, line 377: video_output_path.exists().
PathExists(out, files) == \E f \in files : f.path = out

\* _get_video_metadata_ffprobe: the value returned when nothing is raised.
get_video_metadata_ffprobe(raw) ==
    IF raw.kind = "ok"
    THEN MetadataOf(raw.duration, raw.width, raw.height)
    ELSE NoMetadata

\* _get_video_metadata_ffprobe: what it raises.  FileNotFoundError is
\* re-raised (line 256); an exception outside the except clauses passes.
ProbeRaises(raw) ==
    IF raw.kind = "FileNotFoundError" THEN "FileNotFoundError"
    ELSE IF raw.kind = "OtherException" THEN "Exception"
    ELSE "none"

\* Mutant: a missing metadata dictionary goes unnoticed.
MetadataMissing_Never(metadata) == FALSE

\* merge_video, line 398: `if metadata is None`.
MetadataMissing(metadata) == metadata.kind = "None"

\* Mutant: no part is skipped for its duration.
SkipPart_Never(metadata) == FALSE

\* Mutant: only negative durations are skipped.
SkipPart_NegativeOnly(metadata) == metadata.duration < 0

\* merge_video, line 414: `if current_duration <= 0`.
SkipPart(metadata) == metadata.duration <= 0

\* Mutant: the resolutions are not compared.
ResolutionDiffers_Never(metadata, first) == FALSE

\* Mutant: only the widths are compared.
ResolutionDiffers_WidthOnly(metadata, first) == metadata.width # first.width

\* merge_video, line 423: current_resolution != (first width, first height).
ResolutionDiffers(metadata, first) ==
    metadata.width # first.width \/ metadata.height # first.height

\* Mutant: the part is put in front of the list.
AppendValid_Prepend(valid, i) == <<i>> \o valid

\* merge_video, line 448.
AppendValid(valid, i) == Append(valid, i)

\* merge_video, line 449.
AddDuration(total, d) == total + d

\* merge_video, line 427: the part named as the reference in the log.
RefName(valid) == IF valid # <<>> THEN valid[1] ELSE 1

\* Mutant: the first valid part is put in the list but its metadata is not
\* kept as the reference.
CheckPart_ForgetReference(first, valid, total, i, metadata) ==
    IF MetadataMissing(metadata)
    THEN [first |-> first, valid |-> valid, total |-> total, flow |-> "metadata_error"]
    ELSE IF SkipPart(metadata)
    THEN [first |-> first, valid |-> valid, total |-> total, flow |-> "continue"]
    ELSE [first |-> first, valid |-> AppendValid(valid, i),
          total |-> AddDuration(total, metadata.duration), flow |-> "continue"]

\* merge_video, lines 392-449: the body of the validation loop for part i,
\* given the metadata ffprobe returned.  flow is "continue", or the break
\* taken.
CheckPart(first, valid, total, i, metadata) ==
    IF MetadataMissing(metadata)
    THEN [first |-> first, valid |-> valid, total |-> total, flow |-> "metadata_error"]
    ELSE IF SkipPart(metadata)
    THEN [first |-> first, valid |-> valid, total |-> total, flow |-> "continue"]
    ELSE IF first.kind = "None"
    THEN [first |-> metadata, valid |-> AppendValid(valid, i),
          total |-> AddDuration(total, metadata.duration), flow |-> "continue"]
    ELSE IF ResolutionDiffers(metadata, first)
    THEN [first |-> first, valid |-> valid, total |-> total, flow |-> "resolution_mismatch"]
    ELSE [first |-> first, valid |-> AppendValid(valid, i),
          total |-> AddDuration(total, metadata.duration), flow |-> "continue"]

\* merge_video, lines 484-493: both handlers of the validation phase return
\* False.
ValidationExcept(exc) == "False"

\* merge_video, lines 564-604: every handler of the merge phase returns False.
MergeExcept(exc) == "False"

\* The label of the return path taken after an exception.
ExceptionOutcome(exc) ==
    IF exc = "FileNotFoundError" THEN "FailedToolMissing" ELSE "FailedUnexpected"

\* Mutant: the warning is raised at equality too.
DurationMismatch_AtEquality(total, merged) ==
    100 * Abs(total - merged)
        >= Max(100 * duration_tolerance_abs, total * duration_tolerance_rel_pct)

\* merge_video, lines 544-552: duration_diff > max_allowed_diff, both sides
\* times 100.
DurationMismatch(total, merged) ==
    100 * Abs(total - merged)
        > Max(100 * duration_tolerance_abs, total * duration_tolerance_rel_pct)

\* merge_video, lines 536-559: what the duration check logs.
DurationCheck(merged_metadata, total) ==
    IF merged_metadata.kind = "None" THEN "skipped"
    ELSE IF DurationMismatch(total, merged_metadata.duration) THEN "failed"
    ELSE "passed"

\* Mutant: a duration check that did not pass fails the folder.
VerifyReturn_FailOnWarning(check) == IF check = "passed" THEN "True" ELSE "False"

\* merge_video, line 562: the return that follows the duration check.
VerifyReturn(check) == "True"

\* Mutant: the output file is left where it is.
UnlinkOutput_Keep(files, out) == files

\* merge_video, lines 578-585 and 601-603: unlink the output if it exists.
UnlinkOutput(files, out) == {f \in files : f.path # out}

\* Mutant: the list file is left behind.
FinallyCleanup_Keep(temps, id) == temps

\* merge_video, lines 606-616: the finally block unlinks the list file.
FinallyCleanup(temps, id) == {t \in temps : t.id # id}

\* What ffmpeg leaves at the output path.
WriteOutput(files, out, content) ==
    {f \in files : f.path # out} \cup {[path |-> out, content |-> content]}

\* ----------------------------------------------------------------- actions

\* Mutant: main leaves the loop on any failure.
ReturnToMain_HaltOnFailure(folder, result, label) ==
    /\ merge_result' = result
    /\ outcome' = [outcome EXCEPT ![folder] = label]
    /\ success_count' = IF result = "True" THEN success_count + 1 ELSE success_count
    /\ fail_count' = IF result = "True" THEN fail_count ELSE fail_count + 1
    /\ IF result # "True"
       THEN pc' = "finished" /\ path_idx' = path_idx
       ELSE pc' = "main" /\ path_idx' = path_idx + 1

\* Mutant: main tries a folder again after a failure.
ReturnToMain_Retry(folder, result, label) ==
    /\ merge_result' = result
    /\ outcome' = [outcome EXCEPT ![folder] = label]
    /\ success_count' = IF result = "True" THEN success_count + 1 ELSE success_count
    /\ fail_count' = IF result = "True" THEN fail_count ELSE fail_count + 1
    /\ pc' = "main"
    /\ path_idx' = IF result = "True" THEN path_idx + 1 ELSE path_idx

\* Mutant: a failure returned by merge_video is not counted.
ReturnToMain_FailureUncounted(folder, result, label) ==
    /\ merge_result' = result
    /\ outcome' = [outcome EXCEPT ![folder] = label]
    /\ success_count' = IF result = "True" THEN success_count + 1 ELSE success_count
    /\ fail_count' = fail_count
    /\ pc' = "main"
    /\ path_idx' = path_idx + 1

\* main, lines 730-753: what main does with the result of merge_video:
\* "True" or "False" returned, "FileNotFoundError" or "Exception" raised.
ReturnToMain(folder, result, label) ==
    /\ merge_result' = result
    /\ outcome' = [outcome EXCEPT ![folder] = label]
    /\ success_count' = IF result = "True" THEN success_count + 1 ELSE success_count
    /\ fail_count' = IF result = "True" THEN fail_count ELSE fail_count + 1
    /\ IF result = "FileNotFoundError"
       THEN pc' = "finished" /\ path_idx' = path_idx
       ELSE pc' = "main" /\ path_idx' = path_idx + 1

\* main, lines 708-730, and merge_video, lines 365-388: one iteration of
\* the loop up to the first ffprobe run.  pre says whether the output path
\* exists before the run, stat what the exists() call of line 377 comes to:
\* an OSError it does not swallow leaves merge_video and is caught by main
\* (lines 743-749).
MainLoop ==
    /\ pc = "main"
    /\ path_idx <= Len(folder_paths)
    /\ UNCHANGED scanVars
    /\ \E listing \in Listings, pre \in BOOLEAN, stat \in ExistsOutcomes :
         LET folder_name == folder_paths[path_idx]
             out == IF listing = <<>> THEN NoPath ELSE OutputPath(folder_name, listing)
             files == IF pre
                      THEN outputFiles \cup {[path |-> out, content |-> "preexisting"]}
                      ELSE outputFiles
         IN  /\ pre => listing # <<>>
             /\ stat # "ok" => (~pre /\ listing # <<>>)
             /\ path' = folder_name
             /\ videos_arr' = listing
             /\ processed_count' = processed_count + 1
             /\ total_duration' = 0
             /\ first_video_metadata' = NoMetadata
             /\ valid_videos_for_merge' = <<>>
             /\ list_file_path' = 0
             /\ duration_check' = "none"
             /\ probeLog' = <<>>
             /\ mergerCalls' = <<>>
             /\ outputFiles' = files
             /\ UNCHANGED <<tempFiles, errorLogs>>
             /\ IF main_no_videos(listing)
                THEN /\ video_output_path' = NoPath
                     /\ merge_result' = "none"
                     /\ outcome' = [outcome EXCEPT ![folder_name] = "SkippedNoVideos"]
                     /\ idx' = 0
                     /\ fail_count' = fail_count + 1
                     /\ success_count' = success_count
                     /\ path_idx' = path_idx + 1
                     /\ pc' = "main"
                ELSE IF merge_no_videos(listing)
                THEN /\ video_output_path' = NoPath
                     /\ idx' = 0
                     /\ ReturnToMain(folder_name, "False", "SkippedNoVideos")
                ELSE IF stat # "ok"
                THEN /\ video_output_path' = out
                     /\ idx' = 0
                     /\ ReturnToMain(folder_name, "Exception", "FailedUnexpected")
                ELSE IF PathExists(out, files)
                THEN /\ video_output_path' = out
                     /\ idx' = 0
                     /\ ReturnToMain(folder_name, "True", "AlreadyExists")
                ELSE /\ video_output_path' = out
                     /\ merge_result' = "running"
                     /\ idx' = 1
                     /\ pc' = "probe"
                     /\ UNCHANGED <<path_idx, success_count, fail_count, outcome>>

\* Mutant: the specific error log is never written.
WriteLog_Drop(logs, folder, kind, content) == logs

\* The specific error logs merge_video writes (write_text replaces the file).
WriteLog(logs, folder, kind, content) ==
    {l \in logs : ~(l.folder = folder /\ l.kind = kind)}
    \cup {[folder |-> folder, kind |-> kind, content |-> content]}

\* merge_video, lines 392-493: one ffprobe run of the validation loop, the
\* loop body, and after the last part lines 451-481.
ProbePart ==
    /\ pc = "probe"
    /\ UNCHANGED scanVars
    /\ \E raw \in RawPartProbes :
         LET exc == ProbeRaises(raw)
             r == CheckPart(first_video_metadata, valid_videos_for_merge,
                            total_duration, idx, get_video_metadata_ffprobe(raw))
             last == idx = Len(videos_arr)
         IN  /\ probeLog' = Append(probeLog, [target |-> idx, raw |-> raw])
             /\ UNCHANGED <<videos_arr, video_output_path, list_file_path,
                            duration_check, tempFiles, outputFiles, mergerCalls,
                            processed_count, path>>
             /\ IF exc # "none"
                THEN /\ ReturnToMain(path, ValidationExcept(exc), ExceptionOutcome(exc))
                     /\ UNCHANGED <<idx, total_duration, first_video_metadata,
                                    valid_videos_for_merge, errorLogs>>
                ELSE /\ first_video_metadata' = r.first
                     /\ valid_videos_for_merge' = r.valid
                     /\ total_duration' = r.total
                     /\ IF r.flow = "metadata_error"
                        THEN /\ errorLogs' = WriteLog(errorLogs, path, "metadata_error", <<idx>>)
                             /\ idx' = idx
                             /\ ReturnToMain(path, "False", "FailedMetadata")
                        ELSE IF r.flow = "resolution_mismatch"
                        THEN /\ errorLogs' = WriteLog(errorLogs, path, "resolution_mismatch",
                                                      <<RefName(valid_videos_for_merge), idx>>)
                             /\ idx' = idx
                             /\ ReturnToMain(path, "False", "FailedResolutionMismatch")
                        ELSE IF ~last
                        THEN /\ idx' = idx + 1
                             /\ pc' = "probe"
                             /\ UNCHANGED <<errorLogs, path_idx, success_count,
                                            fail_count, outcome, merge_result>>
                        ELSE IF r.valid = <<>>
                        THEN /\ idx' = idx
                             /\ errorLogs' = errorLogs
                             /\ ReturnToMain(path, "False", "FailedNoUsableParts")
                        ELSE /\ idx' = idx
                             /\ pc' = IF r.first.kind = "None" THEN "fallback_probe" ELSE "list_file"
                             /\ UNCHANGED <<errorLogs, path_idx, success_count,
                                            fail_count, outcome, merge_result>>

\* merge_video, lines 496-512: the temporary list file.  made says whether
\* NamedTemporaryFile gave a file, written whether the writes went through.
CreateListFile ==
    /\ pc = "list_file"
    /\ UNCHANGED scanVars
    /\ \E made \in BOOLEAN, written \in BOOLEAN :
         /\ written => made
         /\ UNCHANGED <<videos_arr, video_output_path, idx, total_duration,
                        first_video_metadata, valid_videos_for_merge,
                        duration_check, errorLogs, probeLog, mergerCalls,
                        processed_count, path>>
         /\ list_file_path' = IF made THEN path_idx ELSE 0
         /\ IF written
            THEN /\ tempFiles' = tempFiles \cup
                                   {[id |-> path_idx, lines |-> valid_videos_for_merge]}
                 /\ pc' = "ffmpeg"
                 /\ outputFiles' = outputFiles
                 /\ UNCHANGED <<path_idx, success_count, fail_count, outcome, merge_result>>
            ELSE /\ tempFiles' = FinallyCleanup(
                                   IF made THEN tempFiles \cup {[id |-> path_idx, lines |-> <<>>]}
                                           ELSE tempFiles,
                                   IF made THEN path_idx ELSE 0)
                 /\ outputFiles' = UnlinkOutput(outputFiles, video_output_path)
                 /\ ReturnToMain(path, MergeExcept("Exception"), ExceptionOutcome("Exception"))

\* What running ffmpeg can come to: its result, its stderr, and whether a
\* file is left at the output path.
FfmpegRuns ==
    {[kind |-> "ok", stderr |-> "", file |-> TRUE],
     [kind |-> "FileNotFoundError", stderr |-> "", file |-> FALSE]}
    \cup {[kind |-> "CalledProcessError", stderr |-> e, file |-> b] :
             e \in Stderrs, b \in BOOLEAN}
    \cup {[kind |-> "OtherException", stderr |-> "", file |-> b] : b \in BOOLEAN}

\* merge_video, line 572: e.stderr or "No stderr captured from FFmpeg.".
ErrorContent(stderr) ==
    IF stderr = "" THEN "No stderr captured from FFmpeg." ELSE stderr

\* merge_video, lines 515-530 and 564-616: the ffmpeg run and, when it
\* fails, the handlers and the finally block.
RunFfmpeg ==
    /\ pc = "ffmpeg"
    /\ UNCHANGED scanVars
    /\ \E run \in FfmpegRuns :
         LET left == IF run.file
                     THEN WriteOutput(outputFiles, video_output_path,
                                      IF run.kind = "ok" THEN "merged" ELSE "partial")
                     ELSE outputFiles
             list == CHOOSE t \in tempFiles : t.id = list_file_path
         IN  /\ mergerCalls' = Append(mergerCalls,
                    [list |-> list.lines, output |-> video_output_path, run |-> run])
             /\ UNCHANGED <<videos_arr, video_output_path, idx, total_duration,
                            first_video_metadata, valid_videos_for_merge,
                            list_file_path, duration_check, probeLog,
                            processed_count, path>>
             /\ IF run.kind = "ok"
                THEN /\ outputFiles' = left
                     /\ pc' = "verify"
                     /\ UNCHANGED <<tempFiles, errorLogs, path_idx, success_count,
                                    fail_count, outcome, merge_result>>
                ELSE IF run.kind = "CalledProcessError"
                THEN /\ errorLogs' = WriteLog(errorLogs, path, "ffmpeg_error",
                                              ErrorContent(run.stderr))
                     /\ outputFiles' = UnlinkOutput(left, video_output_path)
                     /\ tempFiles' = FinallyCleanup(tempFiles, list_file_path)
                     /\ ReturnToMain(path, MergeExcept("CalledProcessError"), "FailedMergeExecution")
                ELSE IF run.kind = "FileNotFoundError"
                THEN /\ errorLogs' = errorLogs
                     /\ outputFiles' = left
                     /\ tempFiles' = FinallyCleanup(tempFiles, list_file_path)
                     /\ ReturnToMain(path, MergeExcept("FileNotFoundError"),
                                     ExceptionOutcome("FileNotFoundError"))
                ELSE /\ errorLogs' = errorLogs
                     /\ outputFiles' = UnlinkOutput(left, video_output_path)
                     /\ tempFiles' = FinallyCleanup(tempFiles, list_file_path)
                     /\ ReturnToMain(path, MergeExcept("Exception"), ExceptionOutcome("Exception"))

\* merge_video, lines 532-562 and 588-616: the ffprobe run on the merged
\* file, the duration check, the handlers and the finally block.
VerifyDuration ==
    /\ pc = "verify"
    /\ UNCHANGED scanVars
    /\ \E raw \in RawOutputProbes(total_duration, first_video_metadata) :
         LET exc == ProbeRaises(raw)
             merged_metadata == get_video_metadata_ffprobe(raw)
         IN  /\ probeLog' = Append(probeLog, [target |-> 0, raw |-> raw])
             /\ UNCHANGED <<videos_arr, video_output_path, idx, total_duration,
                            first_video_metadata, valid_videos_for_merge,
                            list_file_path, errorLogs, mergerCalls,
                            processed_count, path>>
             /\ tempFiles' = FinallyCleanup(tempFiles, list_file_path)
             /\ IF exc = "FileNotFoundError"
                THEN /\ duration_check' = "none"
                     /\ outputFiles' = outputFiles
                     /\ ReturnToMain(path, MergeExcept(exc), ExceptionOutcome(exc))
                ELSE IF exc = "Exception"
                THEN /\ duration_check' = "none"
                     /\ outputFiles' = UnlinkOutput(outputFiles, video_output_path)
                     /\ ReturnToMain(path, MergeExcept(exc), ExceptionOutcome(exc))
                ELSE /\ duration_check' = DurationCheck(merged_metadata, total_duration)
                     /\ outputFiles' = outputFiles
                     /\ LET res == VerifyReturn(DurationCheck(merged_metadata, total_duration))
                        IN  ReturnToMain(path, res,
                                         IF res = "True" THEN "Success" ELSE "FailedUnexpected")

\* main, lines 756-761: the loop is over, the summary is logged.
Finish ==
    /\ pc = "main"
    /\ path_idx > Len(folder_paths)
    /\ pc' = "finished"
    /\ UNCHANGED <<mainVars, localVars, fsVars, callVars, scanVars>>

Next ==
    \/ MainLoop
    \/ ProbePart
    \/ CreateListFile
    \/ RunFfmpeg
    \/ VerifyDuration
    \/ Finish

Spec == Init /\ [][Next]_vars

\* ------------------------------------------- get_dirs and get_videos alone

\* File names, as sequences of pieces: "." and "_" are the characters, the
\* other pieces stand for runs of letters and digits.
ScanNames ==
    {<<"a">>, <<"_", "a">>, <<".", "a">>, <<".", "mp4">>,
     <<"a", ".", "mp4">>, <<"_", "a", ".", "mp4">>, <<".", "a", ".", "mp4">>,
     <<"b", ".", "MP4">>, <<"b", ".", "mkv">>, <<"a", ".", "txt">>}

\* What iterdir() can yield: a name with is_dir() or is_file() true.
ScanEntries == [name : ScanNames, kind : {"dir", "file"}]

RECURSIVE DirectoriesOfSize(_)
\* The directories of at most n entries, no name twice.
DirectoriesOfSize(n) ==
    IF n = 0 THEN {{}}
    ELSE LET smaller == DirectoriesOfSize(n - 1)
         IN  smaller \cup
             UNION {{d \cup {e} :
                       e \in {x \in ScanEntries : \A y \in d : y.name # x.name}} :
                    d \in smaller}

Directories == DirectoriesOfSize(MaxEntries)

\* The order of the pieces as strings (code points: . < M < _ < a < b < m < t).
PieceRank(t) ==
    CASE t = "." -> 1 [] t = "MP4" -> 2 [] t = "_" -> 3 [] t = "a" -> 4
      [] t = "b" -> 5 [] t = "mkv" -> 6 [] t = "mp4" -> 7 [] t = "txt" -> 8

RECURSIVE NameLess(_, _)
\* Path.__lt__ for two entries of one directory: the names as strings.
NameLess(m, n) ==
    IF m = <<>> THEN n # <<>>
    ELSE IF n = <<>> THEN FALSE
    ELSE IF Head(m) # Head(n) THEN PieceRank(Head(m)) < PieceRank(Head(n))
    ELSE NameLess(Tail(m), Tail(n))

RECURSIVE SortNames(_)
\* list.sort() of the paths with the names in the set.
SortNames(names) ==
    IF names = {} THEN <<>>
    ELSE LET least == CHOOSE m \in names : \A n \in names \ {m} : NameLess(m, n)
         IN  <<least>> \o SortNames(names \ {least})

\* Mutant: only the underscore marks a directory to leave out.
HiddenName_UnderscoreOnly(name) == name[1] = "_"

\* get_dirs, line 286: p.name.startswith(('_', '.')).
HiddenName(name) == name[1] \in {"_", "."}

\* str.lower() of a piece.
Lower(t) == IF t = "MP4" THEN "mp4" ELSE t

\* PurePath.suffix: from the last "." on, unless that is the first or the
\* last character of the name.
Suffix(name) ==
    LET dots == {i \in 1..Len(name) : name[i] = "."}
    IN  IF dots = {} THEN <<>>
        ELSE LET i == CHOOSE d \in dots : \A e \in dots : e <= d
             IN  IF 1 < i /\ i < Len(name) THEN SubSeq(name, i, Len(name)) ELSE <<>>

\* get_videos, line 323: file.suffix.lower()[1:] in VIDEO_EXTENSIONS.
VideoSuffix(name) ==
    LET lowered == [i \in 1..Len(Suffix(name)) |-> Lower(Suffix(name)[i])]
        ext == IF lowered = <<>> THEN <<>> ELSE Tail(lowered)
    IN  Len(ext) = 1 /\ ext[1] \in VIDEO_EXTENSIONS

\* get_dirs, lines 277-295; listable is false when main_path is not a
\* directory or iterdir() raises OSError.
get_dirs(es, listable) ==
    IF ~listable THEN <<>>
    ELSE SortNames({e.name : e \in {x \in es : x.kind = "dir" /\ ~HiddenName(x.name)}})

\* get_videos, lines 313-333.
get_videos(es, listable) ==
    IF ~listable THEN <<>>
    ELSE SortNames({e.name : e \in {x \in es : x.kind = "file" /\ VideoSuffix(x.name)}})

\* A directory is there to be scanned; nothing has run.
InitScan ==
    /\ pc = "scan"
    /\ entries \in Directories
    /\ listed = <<>>
    /\ path_idx = 1
    /\ path = ""
    /\ processed_count = 0
    /\ success_count = 0
    /\ fail_count = 0
    /\ outcome = [f \in Folders |-> "Pending"]
    /\ merge_result = "none"
    /\ videos_arr = <<>>
    /\ video_output_path = NoPath
    /\ idx = 0
    /\ total_duration = 0
    /\ first_video_metadata = NoMetadata
    /\ valid_videos_for_merge = <<>>
    /\ list_file_path = 0
    /\ duration_check = "none"
    /\ tempFiles = {}
    /\ outputFiles = {}
    /\ errorLogs = {}
    /\ probeLog = <<>>
    /\ mergerCalls = <<>>

\* main, line 701: folder_paths = get_dirs(main_path).
CallGetDirs ==
    /\ pc = "scan"
    /\ \E listable \in BOOLEAN : listed' = get_dirs(entries, listable)
    /\ pc' = "get_dirs"
    /\ UNCHANGED <<mainVars, localVars, fsVars, callVars, entries>>

\* main, line 719: videos_arr = get_videos(path).
CallGetVideos ==
    /\ pc = "scan"
    /\ \E listable \in BOOLEAN : listed' = get_videos(entries, listable)
    /\ pc' = "get_videos"
    /\ UNCHANGED <<mainVars, localVars, fsVars, callVars, entries>>

NextScan ==
    \/ CallGetDirs
    \/ CallGetVideos

SpecScan == InitScan /\ [][NextScan]_vars

\* --------------------------------------------------- vocabulary of claims

\* merge_video has returned for folder `path`, or main skipped it.
Returned == pc \in {"main", "finished"} /\ path # ""

\* The number of ffprobe runs on parts of the current folder; they come first
\* in probeLog, part i at position i, and the one run on the merged output,
\* when there is one, is the last entry.
NumPartProbes ==
    IF probeLog # <<>> /\ probeLog[Len(probeLog)].target = 0
    THEN Len(probeLog) - 1
    ELSE Len(probeLog)

PartRaw(i) == probeLog[i].raw

\* Part i was probed and ffprobe gave its metadata.
PartKnown(i) == i \in 1..NumPartProbes /\ PartRaw(i).kind = "ok"

PartResolution(i) == <<PartRaw(i).width, PartRaw(i).height>>

\* Part i is a valid part: metadata known, duration > 0.
PartValid(i) == PartKnown(i) /\ PartRaw(i).duration > 0

\* Part i is the first valid part in sorted order.
IsFirstValid(i) == PartValid(i) /\ \A j \in 1..(i - 1) : ~PartValid(j)

\* The positions of the parts written to the list file handed to ffmpeg.
MergerInvoked == mergerCalls # <<>>

LogsOf(folder) == {l \in errorLogs : l.folder = folder}

\* The ffprobe run on the merged output, when there was one.
OutputProbes == {k \in 1..Len(probeLog) : probeLog[k].target = 0}

\* ------------------------------------------------------------------- C1

C2_AlreadyExistsIsIdempotent ==
    /\ \A f \in outputFiles :
          f.content = "preexisting" => outcome[f.path[1]] = "AlreadyExists"
    /\ \A folder \in Folders :
          outcome[folder] = "AlreadyExists"
          => /\ \E f \in outputFiles :
                   f.path[1] = folder /\ f.content = "preexisting"
             /\ LogsOf(folder) = {}
    /\ (path # "" /\ outcome[path] = "AlreadyExists")
       => /\ Returned
          /\ merge_result = "True"
          /\ probeLog = <<>>
          /\ mergerCalls = <<>>
          /\ list_file_path = 0
          /\ tempFiles = {}
          /\ [path |-> video_output_path, content |-> "preexisting"] \in outputFiles
          /\ video_output_path = <<path, videos_arr[1], "output_dir">>

\* The second folder's output was already there, after a first folder that
\* was merged.
C2_Witness ==
    /\ Returned
    /\ path = folder_paths[2]
    /\ outcome[path] = "AlreadyExists"
    /\ outcome[folder_paths[1]] = "Success"
    /\ success_count = 2

\* ------------------------------------------------------------------- C3

\* The positions 1..n in order.
Identity(n) == [i \in 1..n |-> i]

RECURSIVE SumOfDurations(_)
\* The sum of the durations ffprobe gave for the parts at the positions in
\* seq.
SumOfDurations(seq) ==
    IF seq = <<>> THEN 0
    ELSE PartRaw(Head(seq)).duration + SumOfDurations(Tail(seq))

\* Every part of the folder was probed and has metadata, a duration > 0 and
\* the resolution of the first part.
AllPartsGood ==
    /\ videos_arr # <<>>
    /\ NumPartProbes = Len(videos_arr)
    /\ \A i \in 1..NumPartProbes :
          PartValid(i) /\ PartResolution(i) = PartResolution(1)

ValidationFailures == {"FailedMetadata", "FailedNoUsableParts", "FailedResolutionMismatch"}

\* Validation is over and did not fail: merge_video is at the list file or
\* beyond, or returned from there.
ValidationPassed ==
    /\ merge_result # "none"
    /\ pc \in {"list_file", "ffmpeg", "verify", "main", "finished"}
    /\ pc \in {"main", "finished"}
       => outcome[path] \in {"Success", "FailedMergeExecution",
                             "FailedToolMissing", "FailedUnexpected"}

\* C3: when all parts probe successfully with one resolution and durations
\* > 0, validation succeeds, the merge set is all the parts in sorted order
\* (in valid_videos_for_merge, in the list file, in every ffmpeg run) and the
\* expected duration is the sum of the parts' durations.
C3_AllGoodPartsMerged ==
    AllPartsGood
    => /\ ValidationPassed
       /\ valid_videos_for_merge = Identity(Len(videos_arr))
       /\ total_duration = SumOfDurations(Identity(Len(videos_arr)))
       /\ \A t \in tempFiles : t.lines = Identity(Len(videos_arr))
       /\ \A k \in 1..Len(mergerCalls) :
             mergerCalls[k].list = Identity(Len(videos_arr))

\* ffmpeg was run on two good parts of different durations.
C3_Witness ==
    /\ AllPartsGood
    /\ Len(videos_arr) = 2
    /\ PartRaw(1).duration # PartRaw(2).duration
    /\ MergerInvoked
    /\ mergerCalls[1].list = <<1, 2>>

\* ------------------------------------------------------------------- C4

\* The positions of the valid parts among the first n, in sorted order.
RECURSIVE ValidPositions(_)
ValidPositions(n) ==
    IF n = 0 THEN <<>>
    ELSE IF PartValid(n) THEN Append(ValidPositions(n - 1), n)
    ELSE ValidPositions(n - 1)

\* Every part was probed with metadata, at least one part is valid and the
\* valid parts share one resolution.
OnlySkippableFlaws ==
    /\ videos_arr # <<>>
    /\ NumPartProbes = Len(videos_arr)
    /\ \A i \in 1..NumPartProbes : PartKnown(i)
    /\ \E i \in 1..NumPartProbes : PartValid(i)
    /\ \A i, j \in 1..NumPartProbes :
          (PartValid(i) /\ PartValid(j)) => PartResolution(i) = PartResolution(j)

\* C4: a part of duration <= 0 is never in the merge set nor in the expected
\* duration, and when nothing else is wrong with the folder (every part has
\* metadata, the valid parts share a resolution, there is one at least)
\* validation passes with exactly the valid parts.
C4_ZeroDurationPartsSkipped ==
    /\ \A k \in 1..Len(valid_videos_for_merge) :
          PartValid(valid_videos_for_merge[k])
    /\ total_duration = SumOfDurations(valid_videos_for_merge)
    /\ OnlySkippableFlaws
       => /\ ValidationPassed
          /\ valid_videos_for_merge = ValidPositions(Len(videos_arr))
          /\ \A k \in 1..Len(mergerCalls) :
                mergerCalls[k].list = ValidPositions(Len(videos_arr))

\* A folder with a part of duration 0 ended in Success.
C4_Witness ==
    /\ Returned
    /\ outcome[path] = "Success"
    /\ \E i \in 1..NumPartProbes : PartKnown(i) /\ PartRaw(i).duration <= 0
    /\ MergerInvoked
    /\ Len(mergerCalls[1].list) < Len(videos_arr)

\* ------------------------------------------------------------------- C5

C5_WitnessMergerFailed ==
    /\ Returned
    /\ list_file_path # 0
    /\ outcome[path] = "FailedMergeExecution"
    /\ tempFiles = {}

\* ------------------------------------------------------------------- C6

\* C6: when ffprobe or ffmpeg turns out to be missing while a folder is
\* processed, that folder is failed and the batch halts: no later folder of
\* folder_paths is listed, probed or merged.
C6_MissingToolHaltsBatch ==
    \A i \in 1..Len(folder_paths) :
        outcome[folder_paths[i]] = "FailedToolMissing"
        => /\ fail_count >= 1
           /\ path = folder_paths[i]
           /\ \A j \in (i + 1)..Len(folder_paths) :
                 outcome[folder_paths[j]] = "Pending"

\* ------------------------------------------------------------------- C7

\* ffmpeg ran and exited with 0.
MergerOk == MergerInvoked /\ mergerCalls[Len(mergerCalls)].run.kind = "ok"

\* The ffprobe run on the merged output came back, with metadata or with
\* None.
OutputProbeReturned ==
    \E k \in OutputProbes : ProbeRaises(probeLog[k].raw) = "none"

\* C7: once ffmpeg has exited with 0 and the probe of the merged file has
\* returned, with None for a failed probe or with any duration, merge_video
\* returns True (Success), the merged file stays and the check has only
\* logged: skipped, failed or passed.
C7_VerificationIsAdvisory ==
    (MergerOk /\ OutputProbeReturned)
    => /\ Returned
       /\ merge_result = "True"
       /\ outcome[path] = "Success"
       /\ [path |-> video_output_path, content |-> "merged"] \in outputFiles
       /\ duration_check \in {"skipped", "failed", "passed"}
       /\ LogsOf(path) = {}

\* A folder ended in Success although the duration check failed.
C7_Witness ==
    /\ Returned
    /\ MergerOk
    /\ duration_check = "failed"
    /\ outcome[path] = "Success"

\* A folder ended in Success although the probe of the merged file failed.
C7_WitnessProbeFailed ==
    /\ Returned
    /\ MergerOk
    /\ duration_check = "skipped"
    /\ \E k \in OutputProbes : probeLog[k].raw.kind = "CalledProcessError"
    /\ outcome[path] = "Success"

\* ------------------------------------------------------------------- C8

MergerFailed ==
    MergerInvoked /\ mergerCalls[Len(mergerCalls)].run.kind = "CalledProcessError"

PositionOf(folder) == CHOOSE i \in 1..Len(folder_paths) : folder_paths[i] = folder

\* C10: a folder whose listing is empty gets SkippedNoVideos without
\* merge_video being called: no ffprobe or ffmpeg run, no error log, no list
\* file, no output file; it is counted, and the loop goes on to the next
\* folder.
C10_EmptyFolderSkipped ==
    /\ (path # "" /\ videos_arr = <<>>) => outcome[path] = "SkippedNoVideos"
    /\ \A folder \in Folders :
          outcome[folder] = "SkippedNoVideos"
          => /\ LogsOf(folder) = {}
             /\ \A f \in outputFiles : f.path[1] # folder
    /\ (path # "" /\ outcome[path] = "SkippedNoVideos")
       => /\ videos_arr = <<>>
          /\ merge_result = "none"
          /\ probeLog = <<>>
          /\ mergerCalls = <<>>
          /\ list_file_path = 0
          /\ tempFiles = {}
          /\ fail_count >= 1
          /\ path_idx = PositionOf(path) + 1
          /\ pc = "main" \/ (pc = "finished" /\ path_idx > Len(folder_paths))

\* The first folder was skipped for want of videos and the second merged.
C10_Witness ==
    /\ Returned
    /\ outcome[folder_paths[1]] = "SkippedNoVideos"
    /\ outcome[folder_paths[2]] = "Success"
    /\ processed_count = 2
    /\ fail_count = 1
    /\ success_count = 1

\* ------------------------------------------------------------------ C11

\* The failure kinds for which merge_video writes <folder>_<kind>.log.
LoggedKind(label) ==
    IF label = "FailedMetadata" THEN "metadata_error"
    ELSE IF label = "FailedResolutionMismatch" THEN "resolution_mismatch"
    ELSE IF label = "FailedMergeExecution" THEN "ffmpeg_error"
    ELSE "none"

UnexpectedRaised ==
    \/ \E k \in 1..Len(probeLog) : probeLog[k].raw.kind = "OtherException"
    \/ \E k \in 1..Len(mergerCalls) : mergerCalls[k].run.kind = "OtherException"

\* C12: an unexpected exception in the validation loop, at the list file,
\* in the ffmpeg run or in the probe of the merged file makes merge_video
\* return False for that folder; a folder that failed unexpectedly (also
\* when merge_video raised) is counted as failed, the loop moves on to the
\* next folder, and when main is finished no later folder is left
\* unprocessed.
C12_UnexpectedErrorIsFolderScoped ==
    /\ UnexpectedRaised
       => /\ Returned
          /\ merge_result = "False"
          /\ outcome[path] = "FailedUnexpected"
    /\ \A i \in 1..Len(folder_paths) :
          outcome[folder_paths[i]] = "FailedUnexpected"
          => /\ fail_count >= 1
             /\ path_idx > i
             /\ pc = "finished"
                => \A j \in (i + 1)..Len(folder_paths) :
                      outcome[folder_paths[j]] # "Pending"

\* ffmpeg raised unexpectedly in the first folder, and the second folder
\* was merged.
C12_Witness ==
    /\ pc = "finished"
    /\ outcome[folder_paths[1]] = "FailedUnexpected"
    /\ outcome[folder_paths[2]] = "Success"
    /\ fail_count = 1
    /\ success_count = 1

\* merge_video raised (exists() failed) and main went on.
C12_WitnessRaised ==
    /\ Returned
    /\ merge_result = "Exception"
    /\ outcome[folder_paths[1]] = "FailedUnexpected"
    /\ path = folder_paths[2]

\* ------------------------------------------------------------------ C13

\* The name begins with '_' or '.'.
BeginsHidden(name) == Head(name) = "_" \/ Head(name) = "."

\* The name ends in a dot and a recognised extension, in either case, after
\* at least one other character.
EndsAsVideo(name) ==
    /\ Len(name) >= 3
    /\ name[Len(name) - 1] = "."
    /\ name[Len(name)] \in {"mp4", "MP4", "mkv"}

\* The names listed are in ascending order, none twice.
ListedAscending == \A k \in 1..(Len(listed) - 1) : NameLess(listed[k], listed[k + 1])

ListedNames == {listed[k] : k \in 1..Len(listed)}

\* C13 as stated: get_dirs returns no subdirectory, and get_videos no file,
\* whose name begins with '_' or '.'.
C13_NoHiddenEntryUsed ==
    pc \in {"get_dirs", "get_videos"}
    => \A k \in 1..Len(listed) : ~BeginsHidden(listed[k])

\* C13 amended: get_dirs returns, in ascending order, subdirectories whose
\* name does not begin with '_' or '.', and all of them when the directory
\* can be listed; get_videos returns, in ascending order, the files with a
\* recognised extension, those whose name begins with '_' or '.' included.
C13_HiddenDirectoriesOnlySkipped ==
    /\ pc = "get_dirs"
       => /\ ListedAscending
          /\ \A n \in ListedNames :
                [name |-> n, kind |-> "dir"] \in entries /\ ~BeginsHidden(n)
          /\ listed = <<>> \/
                \A e \in entries :
                   (e.kind = "dir" /\ ~BeginsHidden(e.name)) => e.name \in ListedNames
    /\ pc = "get_videos"
       => /\ ListedAscending
          /\ \A n \in ListedNames :
                [name |-> n, kind |-> "file"] \in entries /\ EndsAsVideo(n)
          /\ listed = <<>> \/
                \A e \in entries :
                   (e.kind = "file" /\ EndsAsVideo(e.name)) => e.name \in ListedNames

\* get_videos returned a file named ".a.mp4" and one named "_a.mp4".
C13_Witness ==
    /\ pc = "get_videos"
    /\ listed = << <<".", "a", ".", "mp4">>, <<"_", "a", ".", "mp4">> >>

\* get_dirs returned a directory and left out the hidden one next to it.
C13_WitnessDirs ==
    /\ pc = "get_dirs"
    /\ listed = << <<"a">> >>
    /\ [name |-> <<".", "a">>, kind |-> "dir"] \in entries

\* ------------------------------------------------------------------ C14

\* merge_video is running for the current folder.
InMergeVideo == pc \in {"probe", "list_file", "ffmpeg", "verify"}

\* What one step may do to the order of the work.
C14_Step ==
    \* the loop stays or moves to the next position, never back
    /\ path_idx' \in {path_idx, path_idx + 1}
    \* a folder that has its outcome keeps it
    /\ \A f \in Folders : outcome[f] # "Pending" => outcome'[f] = outcome[f]
    \* a folder is listed when nothing of an earlier folder is running, it is
    \* the next of folder_paths, and it was not attempted before
    /\ processed_count' # processed_count
       => /\ pc = "main"
          /\ processed_count' = processed_count + 1
          /\ path' = folder_paths[processed_count + 1]
          /\ outcome[path'] = "Pending"
          /\ \A j \in 1..processed_count : outcome[folder_paths[j]] # "Pending"
    /\ path' # path => processed_count' # processed_count
    \* ffprobe and ffmpeg run for the folder merge_video is working on
    /\ (Len(probeLog') > Len(probeLog) \/ Len(mergerCalls') > Len(mergerCalls))
       => /\ InMergeVideo
          /\ path' = path
          /\ outcome[path] = "Pending"
    /\ Len(mergerCalls') > Len(mergerCalls)
       => mergerCalls'[Len(mergerCalls')].output[1] = path
    \* the run ends with every folder attempted, once each
    /\ pc' = "finished"
       => /\ processed_count' = Len(folder_paths)
          /\ \A f \in Folders : outcome'[f] # "Pending"

\* C14: every folder of folder_paths is attempted exactly once, in the
\* order of folder_paths, one after the other: a folder is listed only when
\* merge_video has returned for the one before, every ffprobe and ffmpeg
\* run belongs to the folder being processed, no folder is taken up again,
\* and at the end all have been attempted.
C14_SequentialOnce == [][C14_Step]_vars

\* Both folders were attempted, the first failed in ffmpeg and was not
\* retried.
C14_Witness ==
    /\ pc = "finished"
    /\ processed_count = Len(folder_paths)
    /\ outcome[folder_paths[1]] = "FailedMergeExecution"
    /\ outcome[folder_paths[2]] = "Success"

\* ------------------------------------------------------------------ C15

\* The folders attempted so far with a successful, or another, outcome.
Succeeded == {f \in Folders : outcome[f] \in {"Success", "AlreadyExists"}}

Failed == {f \in Folders : outcome[f] \notin {"Pending", "Success", "AlreadyExists"}}

\* The counters between two iterations of main's loop and at the end.
CountersConsistent ==
    pc \in {"main", "finished"}
    => /\ processed_count = success_count + fail_count
       /\ processed_count <= Len(folder_paths)
       /\ success_count = Cardinality(Succeeded)
       /\ fail_count = Cardinality(Failed)

\* No counter goes down, and none goes up by more than one in a step.
CountersMonotone ==
    /\ processed_count' \in {processed_count, processed_count + 1}
    /\ success_count' \in {success_count, success_count + 1}
    /\ fail_count' \in {fail_count, fail_count + 1}

\* C15: after every iteration of the loop and at the end of the run
\* processed_count = success_count + fail_count <= len(folder_paths),
\* success_count is the number of folders that ended in Success or
\* AlreadyExists and fail_count the number of the other attempted folders;
\* no counter ever decreases.
C15_CountersConsistent == []CountersConsistent /\ [][CountersMonotone]_vars

\* One folder merged and one failed on a resolution mismatch: 1 success,
\* 1 failure.
C15_Witness ==
    /\ pc = "finished"
    /\ outcome[folder_paths[1]] = "Success"
    /\ outcome[folder_paths[2]] = "FailedResolutionMismatch"
    /\ processed_count = 2
    /\ success_count = 1
    /\ fail_count = 1

\* ------------------------------------------------------------------ C16

\* The duration ffprobe gave for the merged file, when it gave one.
MergedDurations ==
    {probeLog[k].raw.duration : k \in {j \in OutputProbes : probeLog[j].raw.kind = "ok"}}

\* C16: the duration check warns exactly when the merged duration is more
\* than 5 s away from the sum of the parts' durations and more than 2% of
\* that sum away, and passes otherwise, equality included (durations in
\* half seconds: 5 s = 10, and 2% of the sum is reached when 50 times the
\* difference equals the sum); 100.0 s against 102.5 s passes, 10.0 s
\* against 16.0 s does not.
C16_WarnsOnlyBeyondTolerance ==
    /\ ~DurationMismatch(200, 205)
    /\ DurationMismatch(20, 32)
    /\ \A merged \in MergedDurations :
          LET expected == SumOfDurations(valid_videos_for_merge)
              diff == IF merged >= expected THEN merged - expected ELSE expected - merged
          IN  duration_check = IF diff > 10 /\ 50 * diff > expected
                               THEN "failed"
                               ELSE "passed"

\* The merged file is exactly 2% (12 s) longer than the 600 s of the parts:
\* the check passed.
C16_Witness ==
    /\ Returned
    /\ SumOfDurations(valid_videos_for_merge) = 1200
    /\ MergedDurations = {1224}
    /\ duration_check = "passed"

\* The merged file is 5.5 s shorter than the 30 s of the part: the check
\* failed.
C16_WitnessFailed ==
    /\ Returned
    /\ SumOfDurations(valid_videos_for_merge) = 60
    /\ MergedDurations = {49}
    /\ duration_check = "failed"

\* ------------------------------------------------------------------ C17

\* Every part of the folder was probed and has metadata, and none has a
\* duration > 0.
AllPartsEmpty ==
    /\ videos_arr # <<>>
    /\ NumPartProbes = Len(videos_arr)
    /\ \A i \in 1..NumPartProbes : PartKnown(i) /\ PartRaw(i).duration <= 0

\* C17: when ffprobe gave metadata for every part and no part has a
\* duration > 0, merge_video has returned False on the "no valid video
\* parts" path: nothing is in the merge set, no list file was made, ffmpeg
\* was not run and nothing is at the output path.
C17_NoUsablePartsFails ==
    AllPartsEmpty
    => /\ Returned
       /\ merge_result = "False"
       /\ outcome[path] = "FailedNoUsableParts"
       /\ fail_count >= 1
       /\ valid_videos_for_merge = <<>>
       /\ list_file_path = 0
       /\ tempFiles = {}
       /\ ~MergerInvoked
       /\ OutputProbes = {}
       /\ ~PathExists(video_output_path, outputFiles)

\* Two parts of duration 0 and of different resolutions: no usable part.
C17_Witness ==
    /\ AllPartsEmpty
    /\ Len(videos_arr) = 2
    /\ PartResolution(1) # PartResolution(2)
    /\ outcome[path] = "FailedNoUsableParts"

\* ------------------------------------------------------------------ C18

\* The files at output paths that a step makes, other than those the run
\* finds already there, and those it removes.
OutputsMade == {f \in outputFiles' \ outputFiles : f.content # "preexisting"}

OutputsRemoved == outputFiles \ outputFiles'

\* What one step may do to the filesystem.
C18_Step ==
    \* a file is made or removed only at the output path of the folder
    \* being merged, which lies in the output directory, in no source folder
    /\ \A f \in OutputsMade \cup OutputsRemoved :
          /\ InMergeVideo
          /\ f.path = video_output_path
          /\ f.path = <<path, videos_arr[1], "output_dir">>
          /\ f.path[3] \notin Folders
    \* a file found at the start of the run is never removed or replaced
    /\ \A f \in OutputsRemoved : f.content # "preexisting"
    \* error logs are only added, for the folder being merged
    /\ errorLogs \subseteq errorLogs'
    /\ \A l \in errorLogs' \ errorLogs : InMergeVideo /\ l.folder = path
    \* the only temporary file made or removed is the folder's list file
    /\ \A t \in (tempFiles' \ tempFiles) \cup (tempFiles \ tempFiles') :
          /\ pc \in {"list_file", "ffmpeg", "verify"}
          /\ t.id = list_file_path'
    \* the parts of a folder are listed once and then only read
    /\ videos_arr' # videos_arr => pc = "main"

ExpectedOutputPath == <<path, videos_arr[1], "output_dir">>

\* C19: for a folder with parts, the output path is the output directory
\* with the folder's name and the suffix of the first listed part, also
\* when that part is skipped or the others have another suffix; the file
\* found by the existence check, the output given to ffmpeg, the file ffmpeg
\* leaves and the file removed after a failure are all at that path.
C19_OutputPathFromFirstPart ==
    (path # "" /\ videos_arr # <<>>)
    => /\ video_output_path = ExpectedOutputPath
       /\ \A k \in 1..Len(mergerCalls) : mergerCalls[k].output = ExpectedOutputPath
       /\ \A f \in outputFiles : f.path[1] = path => f.path = ExpectedOutputPath
       /\ outcome[path] = "AlreadyExists"
          => [path |-> ExpectedOutputPath, content |-> "preexisting"] \in outputFiles
       /\ outcome[path] = "Success"
          => [path |-> ExpectedOutputPath, content |-> "merged"] \in outputFiles
       /\ (MergerFailed /\ mergerCalls[Len(mergerCalls)].run.file)
          => \A f \in outputFiles : f.path # ExpectedOutputPath

\* The first part (.mp4) has duration 0 and was skipped, the part merged is
\* a .mkv: the merged file has the suffix .mp4.
C19_Witness ==
    /\ Returned
    /\ outcome[path] = "Success"
    /\ videos_arr = <<"mp4", "mkv">>
    /\ PartRaw(1).duration = 0
    /\ mergerCalls[1].list = <<2>>
    /\ [path |-> <<path, "mp4", "output_dir">>, content |-> "merged"] \in outputFiles

\* ------------------------------------------------------------------ C20

\* C20: when ffmpeg is run for a folder, every part of the folder has been
\* probed, once and with metadata; the list given to ffmpeg is not empty,
\* is in the order of the listing, holds exactly the parts of duration > 0,
\* and these share one resolution; and ffmpeg is run once for the folder.
C20_MergerOnlyAfterFullValidation ==
    MergerInvoked
    => /\ NumPartProbes = Len(videos_arr)
       /\ \A i \in 1..Len(videos_arr) :
             /\ probeLog[i].target = i
             /\ probeLog[i].raw.kind = "ok"
       /\ Len(mergerCalls) = 1
       /\ LET manifest == mergerCalls[1].list
              members == {manifest[k] : k \in 1..Len(manifest)}
          IN  /\ manifest # <<>>
              /\ \A k \in 1..(Len(manifest) - 1) : manifest[k] < manifest[k + 1]
              /\ members = {i \in 1..Len(videos_arr) : probeLog[i].raw.duration > 0}
              /\ \A i, j \in members :
                    /\ probeLog[i].raw.width = probeLog[j].raw.width
                    /\ probeLog[i].raw.height = probeLog[j].raw.height

\* ffmpeg was run, and failed, on the two parts of a folder.
C20_Witness ==
    /\ Returned
    /\ MergerFailed
    /\ Len(videos_arr) = 2
    /\ mergerCalls[1].list = <<1, 2>>
    /\ PartRaw(1).duration # PartRaw(2).duration

\* ------------------------------------------------------------------ C21

\* C21: whenever merge_video has returned False for a folder, no file is at
\* the folder's output path.
C21_NoOutputAfterFailure ==
    (Returned /\ merge_result = "False")
    => ~PathExists(video_output_path, outputFiles)

\* ------------------------------------------------------------------ C22

\* The reference resolution and the merge set, in every state.
ReferenceMatchesMergeSet ==
    /\ (first_video_metadata.kind # "None") <=> (valid_videos_for_merge # <<>>)
    /\ valid_videos_for_merge # <<>>
       => LET r == valid_videos_for_merge[1]
          IN  /\ IsFirstValid(r)
              /\ first_video_metadata.width = PartRaw(r).width
              /\ first_video_metadata.height = PartRaw(r).height
              /\ first_video_metadata.duration = PartRaw(r).duration
    /\ pc # "fallback_probe"
    /\ \A k \in 1..NumPartProbes : probeLog[k].target = k /\ k <= Len(videos_arr)

\* Within one merge_video call the reference, once set, stays.
ReferenceStable ==
    (first_video_metadata.kind # "None" /\ processed_count' = processed_count)
    => first_video_metadata' = first_video_metadata

=============================================================================
